---- MODULE Spec2Model ----
(***************************************************************************)
(* A model of validation-message.js: the path walker, the rule-source      *)
(* generator, the trigger parser, the event registrar with its debounce    *)
(* timers, the per-element validation controller and the form-level        *)
(* validate().                                                             *)
(*                                                                         *)
(* JavaScript strings are sequences of one-character strings, so that      *)
(* split, trim and concatenation are computed as the code computes them.   *)
(* JavaScript values are tagged records.                                   *)
(***************************************************************************)
EXTENDS Integers, Sequences, FiniteSets, TLC

VARIABLES
    api,             \* the exported pure function under call: its arguments and result
    doc,             \* the validation-message elements of the document, in document order
    inForm,          \* per controller: whether it has an enclosing form (this.closest('form'))
    attrs,           \* per controller: its data-* attributes
    value,           \* per input element of the document: its live value
    window,          \* the global namespace
    connected,       \* per controller: whether connectedCallback has completed
    names,           \* per controller: this.__names
    inputs,          \* per controller: this.__inputs, the entries in insertion order
    implementation,  \* per controller: this.__implementation
    innerHTML,       \* per controller: its displayed content
    listeners,       \* the listeners added by registerEventTriggers, in registration order
    timeoutId,       \* per listener: the timeoutId of its closure
    timers,          \* the platform's table of pending timers
    nextTimer,       \* the id the next setTimeout returns
    now,             \* the clock, in milliseconds
    lastFire,        \* per listener: when its event last fired (-1: never)
    sinceFire,       \* per listener: callback invocations by its timers since its last firing
    ret              \* what the last operation returned or threw

vars == <<api, doc, inForm, attrs, value, window, connected, names, inputs,
          implementation, innerHTML, listeners, timeoutId, timers, nextTimer,
          now, lastFire, sinceFire, ret>>

ctrlVars == <<doc, inForm, attrs, value, window, connected, names, inputs,
              implementation, innerHTML, ret>>

timerVars == <<listeners, timeoutId, timers, nextTimer, now, lastFire, sinceFire>>

-----------------------------------------------------------------------------
(* JavaScript values *)

Undefined == [t |-> "undefined"]
Null == [t |-> "null"]
Num(n) == [t |-> "number", n |-> n]
Fn(id) == [t |-> "function", id |-> id]
Obj(f) == [t |-> "object", f |-> f]
Text(s) == [t |-> "string", s |-> s]

\* ToBoolean of a value
Truthy(v) ==
    CASE v.t = "undefined" -> FALSE
      [] v.t = "null" -> FALSE
      [] v.t = "number" -> v.n # 0
      [] v.t = "string" -> v.s # <<>>
      [] OTHER -> TRUE

\* obj?.[key]: undefined on null and undefined, and on a property that is absent
GetProp(obj, key) ==
    IF obj.t = "object" /\ key \in DOMAIN obj.f THEN obj.f[key] ELSE Undefined

\* v ?? null
OrNull(v) == IF v.t \in {"undefined", "null"} THEN Null ELSE v

-----------------------------------------------------------------------------
(* Strings *)

IsSpace(c) == c \in {" ", "\n"}

Includes(s, c) == \E i \in 1..Len(s) : s[i] = c

IndexOf(s, c) == CHOOSE i \in 1..Len(s) : s[i] = c /\ \A j \in 1..(i - 1) : s[j] # c

\* String.prototype.split with a one-character separator
RECURSIVE Split(_, _)
Split(s, sep) ==
    IF ~Includes(s, sep) THEN <<s>>
    ELSE LET i == IndexOf(s, sep)
         IN  <<SubSeq(s, 1, i - 1)>> \o Split(SubSeq(s, i + 1, Len(s)), sep)

RECURSIVE TrimStart(_)
TrimStart(s) ==
    IF s # <<>> /\ IsSpace(s[1]) THEN TrimStart(Tail(s)) ELSE s

RECURSIVE TrimEnd(_)
TrimEnd(s) ==
    IF s # <<>> /\ IsSpace(s[Len(s)]) THEN TrimEnd(SubSeq(s, 1, Len(s) - 1)) ELSE s

\* String.prototype.trim
Trim(s) == TrimEnd(TrimStart(s))

\* String.prototype.split(/\s+/)
RECURSIVE SplitSpaces(_)
SplitSpaces(s) ==
    IF \A i \in 1..Len(s) : ~IsSpace(s[i]) THEN <<s>>
    ELSE LET i == CHOOSE k \in 1..Len(s) :
                      IsSpace(s[k]) /\ \A j \in 1..(k - 1) : ~IsSpace(s[j])
         IN  <<SubSeq(s, 1, i - 1)>> \o SplitSpaces(TrimStart(SubSeq(s, i, Len(s))))

\* All strings over an alphabet, up to a length
StringsUpTo(alphabet, n) == UNION {[1..k -> alphabet] : k \in 0..n}

-----------------------------------------------------------------------------
(* walkObject, lines 11-19 *)

\* pathArr[i] of a JavaScript array: undefined past its end
At(arr, i) == IF i + 1 <= Len(arr) THEN Text(arr[i + 1]) ELSE Undefined

StrPath(s) == [t |-> "string", s |-> s]
ArrPath(a) == [t |-> "array", a |-> a]

RECURSIVE walkObject(_, _, _)
walkObject(obj, path, level) ==
    LET pathArr == IF path.t = "array" THEN path.a ELSE Split(path.s, ".")
        key == At(pathArr, level)
    IN  IF Truthy(key)
        THEN IF Truthy(At(pathArr, level + 1))
             THEN walkObject(GetProp(obj, key.s), ArrPath(pathArr), level + 1)
             ELSE OrNull(GetProp(obj, key.s))
        ELSE Null

-----------------------------------------------------------------------------
(* emitHyperscriptRule, lines 27-36 *)

NL == "\n"

\* `${v}` in a template literal: the string itself, "null" for null
Interpolate(v) == IF v.t = "null" THEN <<"n", "u", "l", "l">> ELSE v.s

RECURSIVE SetLines(_)
SetLines(ins) ==
    IF ins = <<>> THEN <<>>
    ELSE <<" ", " ", "s", "e", "t", " ">> \o Head(ins)
             \o <<" ", "t", "o", " ", "i", "n", "p", "u", "t", "s", "[", "'">>
             \o Head(ins) \o <<"'", "]", NL>> \o SetLines(Tail(ins))

\* line 34 without the trim
CloseDefinitionUntrimmed(definition) == definition \o <<NL, "e", "n", "d">>

\* line 34: definition.trim() + "\nend"
CloseDefinition(definition) == Trim(definition) \o <<NL, "e", "n", "d">>

emitHyperscriptRule(name, ins, statements) ==
    LET header == <<"d", "e", "f", " ">> \o Interpolate(name)
                      \o <<"(", "i", "n", "p", "u", "t", "s", ")", NL>>
        definition == header \o SetLines(ins) \o statements \o <<NL>>
    IN  CloseDefinition(definition)

-----------------------------------------------------------------------------
(* parseEventTriggers, lines 63-83 *)

EmptyMap == [k \in {} |-> <<>>]

\* modifiers[name] = value
Put(m, k, v) == [x \in DOMAIN m \cup {k} |-> IF x = k THEN v ELSE m[x]]

\* lines 76-77: const [name, value] = modifier.split(':'); modifiers[name] = value
SetModifier(modifiers, modifier) ==
    LET pieces == Split(modifier, ":")
    IN  Put(modifiers, pieces[1], pieces[2])

\* lines 73-79, from parts[i]
RECURSIVE Modifiers(_, _, _)
Modifiers(parts, i, modifiers) ==
    IF i > Len(parts) THEN modifiers
    ELSE Modifiers(parts, i + 1,
                   IF Includes(parts[i], ":")
                   THEN SetModifier(modifiers, parts[i])
                   ELSE modifiers)

\* lines 70-80, one trigger
ParseTrigger(trigger) ==
    LET parts == SplitSpaces(trigger)
    IN  [eventName |-> parts[1], modifiers |-> Modifiers(parts, 2, EmptyMap)]

parseEventTriggers(triggerAttr) ==
    IF ~Truthy(triggerAttr) \/ Trim(triggerAttr.s) = <<>> THEN <<>>
    ELSE LET triggers == Split(triggerAttr.s, ",")
         IN  [i \in 1..Len(triggers) |-> ParseTrigger(Trim(triggers[i]))]

-----------------------------------------------------------------------------
(* The document the controllers live in *)

Ctrls == 1..3

\* the ids of the input elements inside the form; "z" is an input outside it
FormInputs == {<<"a">>, <<"b">>}
DocInputs == FormInputs \cup {<<"z">>}

NoAttrs == [inputs |-> Null, function |-> Null, rule |-> Null, name |-> Null,
            events |-> Null]

NoRet == [op |-> "none", c |-> 0, threw |-> FALSE, valid |-> FALSE,
          reason |-> Undefined, loaded |-> FALSE, ev |-> "none", fn |-> Null,
          called |-> <<>>, failing |-> 0]

\* no controller in the document
NoDocument ==
    /\ doc = <<>>
    /\ inForm = [c \in Ctrls |-> FALSE]
    /\ attrs = [c \in Ctrls |-> NoAttrs]
    /\ value = [e \in DocInputs |-> <<>>]
    /\ window = Obj(EmptyMap)
    /\ connected = [c \in Ctrls |-> FALSE]
    /\ names = [c \in Ctrls |-> <<>>]
    /\ inputs = [c \in Ctrls |-> <<>>]
    /\ implementation = [c \in Ctrls |-> Null]
    /\ innerHTML = [c \in Ctrls |-> <<>>]
    /\ ret = NoRet

\* no listener registered, no timer pending
NoTimers ==
    /\ listeners = <<>>
    /\ timeoutId = <<>>
    /\ timers = {}
    /\ nextTimer = 1
    /\ now = 0
    /\ lastFire = <<>>
    /\ sinceFire = <<>>

NoCall == [fn |-> "none", args |-> <<>>, called |-> FALSE, ret |-> Undefined]

-----------------------------------------------------------------------------
(* The platform and the embedder's functions *)

Values == {<<>>, <<"x">>}

MsgFill == <<"F", "i", "l", "l">>
MsgMatch == <<"M", "a", "t", "c", "h">>
MsgOther == <<"O", "t", "h", "e", "r">>
MsgRule == <<"R", "u", "l", "e">>

\* input.validity.valid: every input of the document is required
ValidityValid(el, val) == val[el] # <<>>

\* input.validationMessage
ValidationMessage(el, val) == IF ValidityValid(el, val) THEN <<>> ELSE MsgFill

\* inputs[name] of an entry list: the element, or undefined
HasInput(ins, n) == \E i \in 1..Len(ins) : ins[i].name = n

\* lines 206-209: the native validation closure
nativeValidation(ins, val) ==
    IF ins = <<>> THEN [threw |-> TRUE, v |-> Undefined]
    ELSE LET input == ins[1].el
         IN  IF ~ValidityValid(input, val)
             THEN [threw |-> FALSE, v |-> Text(ValidationMessage(input, val))]
             ELSE [threw |-> FALSE, v |-> Undefined]

\* the test's passwordMatch over the inputs a and b (part_000 lines 107-112)
passwordMatch(ins, val) ==
    IF ~HasInput(ins, <<"a">>) \/ ~HasInput(ins, <<"b">>)
    THEN [threw |-> TRUE, v |-> Undefined]
    ELSE IF val[<<"a">>] # val[<<"b">>]
         THEN [threw |-> FALSE, v |-> Text(MsgMatch)]
         ELSE [threw |-> FALSE, v |-> Text(<<>>)]

\* this.implementation(this.inputs): a call of a value that is no function throws
ApplyFn(f, ins, val) ==
    CASE f.t # "function" -> [threw |-> TRUE, v |-> Undefined]
      [] f.t = "function" /\ f.id = "native" -> nativeValidation(ins, val)
      [] f.t = "function" /\ f.id = "match" -> passwordMatch(ins, val)
      [] f.t = "function" /\ f.id = "other" -> [threw |-> FALSE, v |-> Text(MsgOther)]
      [] OTHER -> \* the compiled rule: a is required
                  IF HasInput(ins, <<"a">>) /\ val[<<"a">>] # <<>>
                  THEN [threw |-> FALSE, v |-> Undefined]
                  ELSE [threw |-> FALSE, v |-> Text(MsgRule)]

\* what _hyperscript.evaluate may do with the emitted source
EvalOutcomes == {"missing", "throws", "defines", "nothing"}

\* the name a source text defines: what stands between "def " and "(inputs)"
DefinedName(source) == SubSeq(source, 5, IndexOf(source, "(") - 1)

\* the evaluator's effect on the global namespace: the def of the source text
\* becomes reachable at its name
Evaluate(win, source, ev) ==
    IF ev = "defines" THEN Obj(Put(win.f, DefinedName(source), Fn("rule"))) ELSE win

-----------------------------------------------------------------------------
(* defrule, lines 44-56 *)

\* lines 53-55, on the namespace the evaluator left: [threw, window, defined]
Defined(after, defined) ==
    IF ~Truthy(defined)
    THEN [threw |-> TRUE, window |-> after, defined |-> Null]
    ELSE [threw |-> FALSE, window |-> after, defined |-> defined]

\* lines 53-55; walkObject(window, null) throws, as null.split is no function
FindDefined(after, name) ==
    IF name.t # "string"
    THEN [threw |-> TRUE, window |-> after, defined |-> Null]
    ELSE Defined(after, walkObject(after, StrPath(name.s), 0))

\* defrule with its errors caught and a validator that does nothing returned
defruleQuiet(win, name, nms, statements, ev) ==
    IF ev \in {"missing", "throws"}
    THEN [threw |-> FALSE, window |-> win, defined |-> Fn("noop")]
    ELSE [FindDefined(Evaluate(win, emitHyperscriptRule(name, nms, statements), ev), name)
            EXCEPT !.threw = FALSE, !.defined = IF @ = Null THEN Fn("noop") ELSE @]

\* [threw, window, defined]
defrule(win, name, nms, statements, ev) ==
    IF ev \in {"missing", "throws"}
    THEN [threw |-> TRUE, window |-> win, defined |-> Null]
    ELSE FindDefined(Evaluate(win, emitHyperscriptRule(name, nms, statements), ev), name)

-----------------------------------------------------------------------------
(* loadNamedInputs, lines 105-112 *)

\* parent.querySelector(`#${name}`) inside the form: the element with that id
QuerySelector(name) == IF name \in FormInputs THEN Text(name) ELSE Null

\* .filter(([, input]) => input !== null)
RECURSIVE FilterFound(_)
FilterFound(entries) ==
    IF entries = <<>> THEN <<>>
    ELSE IF Head(entries).el = Null THEN FilterFound(Tail(entries))
         ELSE <<Head(entries)>> \o FilterFound(Tail(entries))

\* Object.fromEntries: a key keeps its first place and its last value
RECURSIVE FromEntries(_, _)
FromEntries(entries, acc) ==
    IF entries = <<>> THEN acc
    ELSE LET e == Head(entries)
         IN  FromEntries(Tail(entries),
                 IF \E i \in 1..Len(acc) : acc[i].name = e.name
                 THEN [i \in 1..Len(acc) |-> IF acc[i].name = e.name THEN e ELSE acc[i]]
                 ELSE Append(acc, e))

\* [threw, inputs]; parent is null when the controller has no enclosing form, and
\* the selector "#" of an empty name is a syntax error
loadNamedInputs(hasParent, nms) ==
    IF ~hasParent \/ \E i \in 1..Len(nms) : nms[i] = <<>>
    THEN [threw |-> TRUE, inputs |-> <<>>]
    ELSE LET entries == [i \in 1..Len(nms) |-> [name |-> nms[i], el |-> QuerySelector(nms[i])]]
             found == FilterFound(entries)
         IN  [threw |-> FALSE,
              inputs |-> FromEntries([i \in 1..Len(found) |->
                                         [name |-> found[i].name, el |-> found[i].el.s]], <<>>)]

-----------------------------------------------------------------------------
(* ValidationMessage, lines 132-213.  A world is what validate() may change:   *)
(* [implementation, innerHTML, window].                                        *)

\* lines 202-204, with what defrule returned or threw: [threw, w, ev]
LoadRule(w, c, d, ev) ==
    IF d.threw
    THEN [threw |-> TRUE, w |-> [w EXCEPT !.window = d.window], ev |-> ev]
    ELSE [threw |-> FALSE, ev |-> ev,
          w |-> [w EXCEPT !.window = d.window, !.implementation[c] = d.defined]]

\* load() with the rule looked at before the function reference
loadRuleFirst(w, c, ev) ==
    IF Truthy(attrs[c].rule)
    THEN LoadRule(w, c, defrule(w.window, attrs[c].name, names[c], attrs[c].rule.s, ev), ev)
    ELSE IF Truthy(attrs[c].function)
         THEN [threw |-> FALSE, ev |-> "none",
               w |-> [w EXCEPT !.implementation[c] =
                                   walkObject(w.window, StrPath(attrs[c].function.s), 0)]]
         ELSE [threw |-> FALSE, ev |-> "none",
               w |-> [w EXCEPT !.implementation[c] = Fn("native")]]

\* load(), lines 195-212: [threw, w, ev], ev what the evaluator did when it was asked
load(w, c, ev) ==
    IF Truthy(attrs[c].function)
    THEN [threw |-> FALSE, ev |-> "none",
          w |-> [w EXCEPT !.implementation[c] =
                              walkObject(w.window, StrPath(attrs[c].function.s), 0)]]
    ELSE IF Truthy(attrs[c].rule)
         THEN LoadRule(w, c, defrule(w.window, attrs[c].name, names[c],
                                     attrs[c].rule.s, ev), ev)
         ELSE [threw |-> FALSE, ev |-> "none",
               w |-> [w EXCEPT !.implementation[c] = Fn("native")]]

Loaded(l) == [threw |-> l.threw, w |-> l.w, loaded |-> TRUE, ev |-> l.ev]

\* get implementation() without the test of the cached function
getImplementationAnew(w, c, ev) == Loaded(load(w, c, ev))

\* get implementation(), lines 143-150: [threw, w, loaded, ev]
getImplementation(w, c, ev) ==
    IF Truthy(w.implementation[c])
    THEN [threw |-> FALSE, w |-> w, loaded |-> FALSE, ev |-> "none"]
    ELSE Loaded(load(w, c, ev))

\* display(valid, reason), lines 184-190: the new innerHTML
display(valid, reason) == IF ~valid THEN reason.s ELSE <<>>

Threw(c, g) ==
    [NoRet EXCEPT !.op = "validate", !.c = c, !.threw = TRUE, !.loaded = g.loaded,
                  !.ev = g.ev]

\* the verdict returned
Returns(g, c, r) ==
    [NoRet EXCEPT !.op = "validate", !.c = c, !.valid = ~Truthy(r.v), !.reason = r.v,
                  !.loaded = g.loaded, !.ev = g.ev, !.fn = g.w.implementation[c]]

\* lines 180-182 with a display() that writes the reason and never clears
VerdictNoClear(g, c, r) ==
    IF r.threw
    THEN [w |-> g.w, out |-> [Threw(c, g) EXCEPT !.fn = g.w.implementation[c]]]
    ELSE [w |-> IF Truthy(r.v) THEN [g.w EXCEPT !.innerHTML[c] = r.v.s] ELSE g.w,
          out |-> Returns(g, c, r)]

\* lines 180-182, with what the function returned or threw
Verdict(g, c, r) ==
    IF r.threw
    THEN [w |-> g.w, out |-> [Threw(c, g) EXCEPT !.fn = g.w.implementation[c]]]
    ELSE [w |-> [g.w EXCEPT !.innerHTML[c] = display(~Truthy(r.v), r.v)],
          out |-> Returns(g, c, r)]

\* line 179, with what the implementation getter returned or threw
Validated(g, c) ==
    IF g.threw THEN [w |-> g.w, out |-> Threw(c, g)]
    ELSE Verdict(g, c, ApplyFn(g.w.implementation[c], inputs[c], value))

\* validate(), lines 178-183: [w, out]
validate(w, c, ev) == Validated(getImplementation(w, c, ev), c)

World == [implementation |-> implementation, innerHTML |-> innerHTML, window |-> window]

SetWorld(w) ==
    /\ implementation' = w.implementation
    /\ innerHTML' = w.innerHTML
    /\ window' = w.window

\* validate() has run from the state's world
Returned(r) == SetWorld(r.w) /\ ret' = r.out

-----------------------------------------------------------------------------
(* registerEventTriggers, lines 87-104, and the platform's timers *)

DigitValue(ch) ==
    CASE ch = "0" -> 0 [] ch = "1" -> 1 [] ch = "2" -> 2 [] ch = "3" -> 3 [] ch = "4" -> 4
      [] ch = "5" -> 5 [] ch = "6" -> 6 [] ch = "7" -> 7 [] ch = "8" -> 8 [] ch = "9" -> 9

IsDigit(ch) == ch \in {"0", "1", "2", "3", "4", "5", "6", "7", "8", "9"}

RECURSIVE DigitsValue(_, _)
DigitsValue(s, acc) ==
    IF s # <<>> /\ IsDigit(s[1]) THEN DigitsValue(Tail(s), 10 * acc + DigitValue(s[1]))
    ELSE acc

\* parseInt(s, 10): the leading digits, NaN when there is none
ParseInt(s) ==
    IF s # <<>> /\ IsDigit(s[1]) THEN [nan |-> FALSE, n |-> DigitsValue(s, 0)]
    ELSE [nan |-> TRUE, n |-> 0]

\* if (modifiers.delay)
HasDelay(modifiers) ==
    <<"d", "e", "l", "a", "y">> \in DOMAIN modifiers
        /\ modifiers[<<"d", "e", "l", "a", "y">>] # <<>>

\* the listener added for one input and one trigger
Listener(el, trigger, c) ==
    [el |-> el, eventName |-> trigger.eventName, c |-> c,
     delayed |-> HasDelay(trigger.modifiers),
     delay |-> IF HasDelay(trigger.modifiers)
               THEN ParseInt(trigger.modifiers[<<"d", "e", "l", "a", "y">>])
               ELSE ParseInt(<<>>)]

\* the listeners in the order they are added: input by input, trigger by trigger
registerEventTriggers(els, triggers, c) ==
    [k \in 1..(Len(els) * Len(triggers)) |->
        Listener(els[((k - 1) \div Len(triggers)) + 1],
                 triggers[((k - 1) % Len(triggers)) + 1], c)]

\* a listener that does not cancel its pending timer
ClearTimeoutNoop(table, id) == table

\* clearTimeout(id)
ClearTimeout(table, id) == {t \in table : t.id # id}

\* setTimeout(callback of listener l, delay): NaN and negative delays count as 0
SetTimeout(table, id, l, delay, time) ==
    table \cup {[id |-> id, l |-> l,
                 due |-> time + (IF delay.nan \/ delay.n < 0 THEN 0 ELSE delay.n)]}

\* the sinceFire of a listener that called validate() itself
Called(s, l, r) == [s EXCEPT !.w = r.w, !.out = r.out, !.sinceFire[l] = 1]

\* One listener hears the event (lines 93-98, line 100).
\* s = [w, timeoutId, timers, nextTimer, sinceFire, out]
Hear(s, l, ev) ==
    IF listeners[l].delayed
    THEN [s EXCEPT
            !.timers = SetTimeout(ClearTimeout(s.timers, s.timeoutId[l]),
                                  s.nextTimer, l, listeners[l].delay, now),
            !.timeoutId[l] = s.nextTimer,
            !.nextTimer = s.nextTimer + 1,
            !.sinceFire[l] = 0]
    ELSE Called(s, l, validate(s.w, listeners[l].c, ev))

\* The dispatch of one event: the matching listeners run in registration order
RECURSIVE Dispatch(_, _, _, _, _)
Dispatch(s, el, eventName, l, ev) ==
    IF l > Len(listeners) THEN s
    ELSE Dispatch(IF listeners[l].el = el /\ listeners[l].eventName = eventName
                  THEN Hear(s, l, ev) ELSE s,
                  el, eventName, l + 1, ev)

-----------------------------------------------------------------------------
(* The exported functions, called on arguments drawn from bounded sets *)

MaxPathLen == 4
MaxPathSegs == 3
MaxStmtLen == 3
MaxInputs == 2
MaxTriggerLen == 5

Leaves == {Num(0), Num(1)}
Absent == [t |-> "absent"]

\* the objects with the given keys, each key absent or holding one of vals
ObjectsOver(keys, vals) ==
    {Obj([k \in {x \in keys : g[x] # Absent} |-> g[k]]) : g \in [keys -> vals \cup {Absent}]}

WalkKeys == {<<"a">>, <<"b">>}

WalkRoots == ObjectsOver(WalkKeys, Leaves \cup ObjectsOver(WalkKeys, Leaves))

WalkPaths ==
    {StrPath(s) : s \in StringsUpTo({"a", "b", "."}, MaxPathLen)}
        \cup {ArrPath(a) : a \in StringsUpTo({<<>>, <<"a">>, <<"b">>}, MaxPathSegs)}

InitWalk ==
    /\ api \in {[fn |-> "walkObject", args |-> <<o, p>>, called |-> FALSE, ret |-> Undefined]
                  : o \in WalkRoots, p \in WalkPaths}
    /\ NoDocument
    /\ NoTimers

CallWalkObject ==
    /\ api.fn = "walkObject" /\ ~api.called
    /\ api' = [api EXCEPT !.called = TRUE,
                          !.ret = walkObject(api.args[1], api.args[2], 0)]
    /\ UNCHANGED <<ctrlVars, timerVars>>

SpecWalk == InitWalk /\ [][CallWalkObject]_vars

RuleNames == {Text(<<"r">>), Text(<<"M", ".", "c">>), Text(<<" ">>)}

InitEmit ==
    /\ api \in {[fn |-> "emitHyperscriptRule", args |-> <<n, i, st>>, called |-> FALSE,
                 ret |-> Undefined]
                  : n \in RuleNames,
                    i \in StringsUpTo({<<"p">>, <<"c">>}, MaxInputs),
                    st \in StringsUpTo({"x", " ", NL}, MaxStmtLen)}
    /\ NoDocument
    /\ NoTimers

CallEmitHyperscriptRule ==
    /\ api.fn = "emitHyperscriptRule" /\ ~api.called
    /\ api' = [api EXCEPT !.called = TRUE,
                          !.ret = emitHyperscriptRule(api.args[1], api.args[2], api.args[3])]
    /\ UNCHANGED <<ctrlVars, timerVars>>

SpecEmit == InitEmit /\ [][CallEmitHyperscriptRule]_vars

InitParse ==
    /\ api \in {[fn |-> "parseEventTriggers", args |-> <<a>>, called |-> FALSE,
                 ret |-> Undefined]
                  : a \in {Null} \cup {Text(s) : s \in StringsUpTo({"e", ":", " ", ","},
                                                                  MaxTriggerLen)}}
    /\ NoDocument
    /\ NoTimers

CallParseEventTriggers ==
    /\ api.fn = "parseEventTriggers" /\ ~api.called
    /\ api' = [api EXCEPT !.called = TRUE, !.ret = parseEventTriggers(api.args[1])]
    /\ UNCHANGED <<ctrlVars, timerVars>>

SpecParse == InitParse /\ [][CallParseEventTriggers]_vars

-----------------------------------------------------------------------------
(* The controller's operations *)

MaxTime == 4
MaxTimers == 4

Env == [NoRet EXCEPT !.op = "environment"]

InDoc(c) == \E i \in 1..Len(doc) : doc[i] = c

\* Object.values(inputs)
ObjectValues(ins) == [i \in 1..Len(ins) |-> ins[i].el]

\* lines 164-172, with the names and what loadNamedInputs returned or threw
Attach(c, nms, l, added) ==
    /\ names' = [names EXCEPT ![c] = nms]
    /\ IF l.threw
       THEN /\ ret' = [NoRet EXCEPT !.op = "connect", !.c = c, !.threw = TRUE]
            /\ UNCHANGED <<inputs, connected, listeners, timeoutId, lastFire, sinceFire>>
       ELSE /\ inputs' = [inputs EXCEPT ![c] = l.inputs]
            /\ listeners' = listeners \o added
            /\ timeoutId' = timeoutId \o [k \in 1..Len(added) |-> 0]
            /\ lastFire' = lastFire \o [k \in 1..Len(added) |-> -1]
            /\ sinceFire' = sinceFire \o [k \in 1..Len(added) |-> 0]
            /\ connected' = [connected EXCEPT ![c] = TRUE]
            /\ ret' = [NoRet EXCEPT !.op = "connect", !.c = c]

\* lines 166-172: the listeners to add
Triggered(c, ins) ==
    IF attrs[c].events # Null
    THEN registerEventTriggers(ObjectValues(ins), parseEventTriggers(attrs[c].events), c)
    ELSE <<>>

AttachInputs(c, nms, l) == Attach(c, nms, l, Triggered(c, l.inputs))

AttachNames(c, nms) == AttachInputs(c, nms, loadNamedInputs(inForm[c], nms))

\* connectedCallback(), lines 160-173
Connect(c) ==
    /\ InDoc(c) /\ ~connected[c]
    /\ IF ~Truthy(attrs[c].inputs)
       THEN /\ ret' = [NoRet EXCEPT !.op = "connect", !.c = c, !.threw = TRUE]
            /\ UNCHANGED <<names, inputs, connected, listeners, timeoutId,
                           lastFire, sinceFire>>
       ELSE AttachNames(c, SplitSpaces(Trim(attrs[c].inputs.s)))
    /\ UNCHANGED <<api, doc, inForm, attrs, value, window, implementation, innerHTML,
                   timers, nextTimer, now>>

\* a call of validate() on a controller
Validate(c, ev) ==
    /\ InDoc(c)
    /\ Returned(validate(World, c, ev))
    /\ UNCHANGED <<api, doc, inForm, attrs, value, connected, names, inputs, timerVars>>

\* set implementation(vFn), line 151
SetImplementation(c, vFn) ==
    /\ InDoc(c)
    /\ implementation' = [implementation EXCEPT ![c] = vFn]
    /\ ret' = [NoRet EXCEPT !.op = "setImplementation", !.c = c]
    /\ UNCHANGED <<api, doc, inForm, attrs, value, window, connected, names, inputs,
                   innerHTML, timerVars>>

\* the user edits an input
SetValue(el, v) ==
    /\ value[el] # v
    /\ value' = [value EXCEPT ![el] = v]
    /\ ret' = Env
    /\ UNCHANGED <<api, doc, inForm, attrs, window, connected, names, inputs,
                   implementation, innerHTML, timerVars>>

FunctionAttrs == {Null, Text(<<"V", ".", "m">>), Text(<<"V", ".", "n">>)}
RuleAttrs == {Null, Text(<<"x">>)}

\* the embedder changes the function or the rule attribute
SetAttribute(c, fa, ra) ==
    /\ InDoc(c)
    /\ attrs[c].function # fa \/ attrs[c].rule # ra
    /\ attrs' = [attrs EXCEPT ![c].function = fa, ![c].rule = ra]
    /\ ret' = Env
    /\ UNCHANGED <<api, doc, inForm, value, window, connected, names, inputs,
                   implementation, innerHTML, timerVars>>

GlobalWith(f) == Obj([k \in {<<"V">>} |-> Obj([j \in {<<"m">>} |-> f])])

\* the embedder assigns window.V.m
ChangeGlobal(f) ==
    /\ GetProp(GetProp(window, <<"V">>), <<"m">>) # f
    /\ window' = Obj(Put(window.f, <<"V">>, Obj([j \in {<<"m">>} |-> f])))
    /\ ret' = Env
    /\ UNCHANGED <<api, doc, inForm, attrs, value, connected, names, inputs,
                   implementation, innerHTML, timerVars>>

\* validate(form), lines 113-121, over the controllers cs of the form:
\* [w, called, failing, threw]
RECURSIVE FormLoop(_, _, _, _)

\* lines 116-119 without the early return: every controller is validated and the
\* first failing one returned
FormStepAll(r, cs, called, ev) ==
    IF r.out.threw
    THEN [w |-> r.w, called |-> Append(called, Head(cs)), failing |-> 0, threw |-> TRUE]
    ELSE IF ~r.out.valid
         THEN [FormLoop(r.w, Tail(cs), Append(called, Head(cs)), ev)
                 EXCEPT !.failing = Head(cs)]
         ELSE FormLoop(r.w, Tail(cs), Append(called, Head(cs)), ev)

\* lines 116-119, with the verdict r of the controller at the head of cs
FormStep(r, cs, called, ev) ==
    IF r.out.threw
    THEN [w |-> r.w, called |-> Append(called, Head(cs)), failing |-> 0, threw |-> TRUE]
    ELSE IF ~r.out.valid
         THEN [w |-> r.w, called |-> Append(called, Head(cs)), failing |-> Head(cs),
               threw |-> FALSE]
         ELSE FormLoop(r.w, Tail(cs), Append(called, Head(cs)), ev)

FormLoop(w, cs, called, ev) ==
    IF cs = <<>> THEN [w |-> w, called |-> called, failing |-> 0, threw |-> FALSE]
    ELSE FormStep(validate(w, Head(cs), ev), cs, called, ev)

\* form.querySelectorAll('validation-message'): in document order
RECURSIVE QuerySelectorAll(_)
QuerySelectorAll(d) ==
    IF d = <<>> THEN <<>>
    ELSE IF inForm[Head(d)] THEN <<Head(d)>> \o QuerySelectorAll(Tail(d))
         ELSE QuerySelectorAll(Tail(d))

\* validate(form) has run
FormReturned(r) ==
    /\ SetWorld(r.w)
    /\ ret' = [NoRet EXCEPT !.op = "validateForm", !.threw = r.threw,
                            !.called = r.called, !.failing = r.failing]

FormValidate(ev) ==
    /\ FormReturned(FormLoop(World, QuerySelectorAll(doc), <<>>, ev))
    /\ UNCHANGED <<api, doc, inForm, attrs, value, connected, names, inputs, timerVars>>

\* the listeners of an event have run
Dispatched(s) ==
    /\ SetWorld(s.w)
    /\ timeoutId' = s.timeoutId
    /\ timers' = s.timers
    /\ nextTimer' = s.nextTimer
    /\ sinceFire' = s.sinceFire
    /\ ret' = s.out

\* an event of the given name is dispatched on an input
FireEvent(el, eventName, ev) ==
    /\ \E l \in 1..Len(listeners) : listeners[l].el = el /\ listeners[l].eventName = eventName
    /\ nextTimer + Cardinality({l \in 1..Len(listeners) :
                                  /\ listeners[l].el = el
                                  /\ listeners[l].eventName = eventName
                                  /\ listeners[l].delayed}) <= MaxTimers + 1
    /\ Dispatched(Dispatch([w |-> World, timeoutId |-> timeoutId, timers |-> timers,
                             nextTimer |-> nextTimer, sinceFire |-> sinceFire,
                             out |-> [NoRet EXCEPT !.op = "event"]],
                            el, eventName, 1, ev))
    /\ lastFire' = [l \in 1..Len(listeners) |->
                       IF listeners[l].el = el /\ listeners[l].eventName = eventName
                       THEN now ELSE lastFire[l]]
    /\ UNCHANGED <<api, doc, inForm, attrs, value, connected, names, inputs,
                   listeners, now>>

\* a pending timer is due: its callback calls validate()
TimerFire(t, ev) ==
    /\ t \in timers /\ t.due <= now
    /\ timers' = timers \ {t}
    /\ sinceFire' = [sinceFire EXCEPT ![t.l] = @ + 1]
    /\ Returned(validate(World, listeners[t.l].c, ev))
    /\ UNCHANGED <<api, doc, inForm, attrs, value, connected, names, inputs,
                   listeners, timeoutId, nextTimer, now, lastFire>>

\* a millisecond passes; a timer that is due runs first
Tick ==
    /\ now < MaxTime
    /\ \A t \in timers : t.due > now
    /\ now' = now + 1
    /\ ret' = Env
    /\ UNCHANGED <<api, doc, inForm, attrs, value, window, connected, names, inputs,
                   implementation, innerHTML, listeners, timeoutId, timers, nextTimer,
                   lastFire, sinceFire>>

-----------------------------------------------------------------------------
(* One controller, every configuration *)

InputsAttrs == {Null, Text(<<"a">>), Text(<<"a", " ", "b">>), Text(<<"b", " ", "a">>),
                Text(<<"q", " ", "z", " ", "a">>), Text(<<" ">>)}
NameAttrs == {Null, Text(<<"r">>)}

Init ==
    /\ api = NoCall
    /\ doc = <<1>>
    /\ inForm \in {[c \in Ctrls |-> c = 1 /\ b] : b \in BOOLEAN}
    /\ attrs \in {[c \in Ctrls |-> IF c = 1 THEN a ELSE NoAttrs] :
                    a \in [inputs : InputsAttrs, function : FunctionAttrs,
                           rule : RuleAttrs, name : NameAttrs, events : {Null}]}
    /\ value \in [DocInputs -> Values]
    /\ value[<<"z">>] = <<>>
    /\ window = GlobalWith(Fn("match"))
    /\ connected = [c \in Ctrls |-> FALSE]
    /\ names = [c \in Ctrls |-> <<>>]
    /\ inputs = [c \in Ctrls |-> <<>>]
    /\ implementation = [c \in Ctrls |-> Null]
    /\ innerHTML = [c \in Ctrls |-> <<>>]
    /\ ret = NoRet
    /\ NoTimers

Next ==
    \/ \E c \in Ctrls : Connect(c)
    \/ \E c \in Ctrls, ev \in EvalOutcomes : Validate(c, ev)
    \/ \E c \in Ctrls, f \in {Null, Fn("other")} : SetImplementation(c, f)
    \/ \E el \in FormInputs, v \in Values : SetValue(el, v)
    \/ \E c \in Ctrls, fa \in FunctionAttrs, ra \in RuleAttrs : SetAttribute(c, fa, ra)
    \/ \E f \in {Fn("match"), Fn("other")} : ChangeGlobal(f)

Spec == Init /\ [][Next]_vars

-----------------------------------------------------------------------------
(* A form of three controllers *)

Profile(ins, fa, ra, na) ==
    [inputs |-> Text(ins), function |-> fa, rule |-> ra, name |-> na, events |-> Null]

FormProfiles ==
    {Profile(<<"a">>, Null, Null, Null),
     Profile(<<"b">>, Null, Null, Null),
     Profile(<<"a", " ", "b">>, Text(<<"V", ".", "m">>), Null, Null),
     Profile(<<"a">>, Null, Text(<<"x">>), Text(<<"r">>))}

InitForm ==
    /\ api = NoCall
    /\ doc = <<1, 2, 3>>
    /\ inForm \in {[c \in Ctrls |-> c # 2 \/ b] : b \in BOOLEAN}
    /\ attrs \in [Ctrls -> FormProfiles]
    /\ value \in [DocInputs -> Values]
    /\ value[<<"z">>] = <<>>
    /\ window = GlobalWith(Fn("match"))
    /\ connected = [c \in Ctrls |-> FALSE]
    /\ names = [c \in Ctrls |-> <<>>]
    /\ inputs = [c \in Ctrls |-> <<>>]
    /\ implementation = [c \in Ctrls |-> Null]
    /\ innerHTML = [c \in Ctrls |-> <<>>]
    /\ ret = NoRet
    /\ NoTimers

NextForm ==
    \/ \E c \in Ctrls : Connect(c)
    \/ \E el \in FormInputs, v \in Values : SetValue(el, v)
    \/ \E c \in Ctrls, ev \in EvalOutcomes : Validate(c, ev)
    \/ \E ev \in EvalOutcomes : FormValidate(ev)

SpecForm == InitForm /\ [][NextForm]_vars

-----------------------------------------------------------------------------
(* A controller with event triggers *)

DelayIs(d) == <<"d", "e", "l", "a", "y", ":">> \o d

EventAttrs ==
    {Text(<<"i", " ">> \o DelayIs(<<"2">>)),
     Text(<<"i", " ">> \o DelayIs(<<"1">>) \o <<",", " ", "c", " ">> \o DelayIs(<<"2">>)),
     Text(<<"i", ",", "c", " ">> \o DelayIs(<<"2">>)),
     Text(<<"i", " ">> \o DelayIs(<<"0">>)),
     Text(<<"i", " ">> \o DelayIs(<<>>))}

EventNames == {<<"i">>, <<"c">>}

InitEvents ==
    /\ api = NoCall
    /\ doc = <<1>>
    /\ inForm = [c \in Ctrls |-> c = 1]
    /\ attrs \in {[c \in Ctrls |-> IF c = 1 THEN a ELSE NoAttrs] :
                    a \in [inputs : {Text(<<"a">>), Text(<<"a", " ", "b">>)},
                           function : {Null}, rule : {Null}, name : {Null},
                           events : EventAttrs]}
    /\ value = [e \in DocInputs |-> <<>>]
    /\ window = GlobalWith(Fn("match"))
    /\ connected = [c \in Ctrls |-> FALSE]
    /\ names = [c \in Ctrls |-> <<>>]
    /\ inputs = [c \in Ctrls |-> <<>>]
    /\ implementation = [c \in Ctrls |-> Null]
    /\ innerHTML = [c \in Ctrls |-> <<>>]
    /\ ret = NoRet
    /\ NoTimers

NextEvents ==
    \/ \E c \in Ctrls : Connect(c)
    \/ \E v \in Values : SetValue(<<"a">>, v)
    \/ \E el \in FormInputs, n \in EventNames : FireEvent(el, n, "defines")
    \/ \E t \in timers : TimerFire(t, "defines")
    \/ Tick

SpecEvents == InitEvents /\ [][NextEvents]_vars

-----------------------------------------------------------------------------
(* C8: walkObject *)

\* the segments a path names: those of the array, or the dotted string's
PathSegments(path) == IF path.t = "array" THEN path.a ELSE Split(path.s, ".")

PathIsEmpty(path) == IF path.t = "array" THEN path.a = <<>> ELSE path.s = <<>>

\* one property per segment, through all the segments
RECURSIVE Descend(_, _)
Descend(v, segs) ==
    IF segs = <<>> THEN v ELSE Descend(GetProp(v, Head(segs)), Tail(segs))

WalkExpected(obj, path) ==
    IF PathIsEmpty(path) THEN Null ELSE OrNull(Descend(obj, PathSegments(path)))

\* C8: for every root object and every path, dotted string or array of segments,
\* walkObject returns the value reached by descending one property per segment
\* through all the segments of the path, and null when the path is empty or a
\* segment along the way is absent.
C8_WalkDescendsWholePath ==
    (api.fn = "walkObject" /\ api.called)
        => api.ret = WalkExpected(api.args[1], api.args[2])

\* the statement of C8 holds of the paths without an empty segment
C8_NoEmptySegment ==
    (api.fn = "walkObject" /\ api.called
       /\ (PathIsEmpty(api.args[2])
             \/ \A i \in 1..Len(PathSegments(api.args[2])) :
                    PathSegments(api.args[2])[i] # <<>>))
        => api.ret = WalkExpected(api.args[1], api.args[2])

-----------------------------------------------------------------------------
(* C9: emitHyperscriptRule *)

EmitHeaderLine(name) ==
    <<"d", "e", "f", " ">> \o name.s \o <<"(", "i", "n", "p", "u", "t", "s", ")">>

EmitSetLine(i) ==
    <<" ", " ", "s", "e", "t", " ">> \o i
        \o <<" ", "t", "o", " ", "i", "n", "p", "u", "t", "s", "[", "'">> \o i \o <<"'", "]">>

\* the lines, each ended by a line break
RECURSIVE JoinLines(_)
JoinLines(ls) == IF ls = <<>> THEN <<>> ELSE Head(ls) \o <<NL>> \o JoinLines(Tail(ls))

EmitExpected(name, ins, statements) ==
    LET lines == <<EmitHeaderLine(name)>> \o [k \in 1..Len(ins) |-> EmitSetLine(ins[k])]
    IN  TrimEnd(JoinLines(lines) \o statements) \o <<NL, "e", "n", "d">>

\* C9: the text is the header line, one set line per input name in the given
\* order, the statement body and a final line 'end'; the text before 'end' has its
\* trailing whitespace trimmed, so that no blank line precedes 'end'.
C9_EmitLayout ==
    (api.fn = "emitHyperscriptRule" /\ api.called)
        => /\ api.ret = EmitExpected(api.args[1], api.args[2], api.args[3])
           /\ ~IsSpace(api.ret[Len(api.ret) - 4])

\* a body that ends in whitespace, after two set lines, has been emitted
C9_Witness ==
    /\ api.fn = "emitHyperscriptRule" /\ api.called
    /\ Len(api.args[2]) = 2
    /\ api.args[3] # <<>> /\ api.args[3][1] = "x"
    /\ IsSpace(api.args[3][Len(api.args[3])])

-----------------------------------------------------------------------------
(* C7: parseEventTriggers *)

\* the maximal runs of non-space characters of s, in order
RECURSIVE Tokens(_)
Tokens(s) ==
    LET t == TrimStart(s)
        n == IF \E i \in 1..Len(t) : IsSpace(t[i])
             THEN (CHOOSE i \in 1..Len(t) : IsSpace(t[i]) /\ \A j \in 1..(i - 1) : ~IsSpace(t[j])) - 1
             ELSE Len(t)
    IN  IF t = <<>> THEN <<>> ELSE <<SubSeq(t, 1, n)>> \o Tokens(SubSeq(t, n + 1, Len(t)))

\* key:value: the key before the first colon, the value after it
KeyOf(tok) == SubSeq(tok, 1, IndexOf(tok, ":") - 1)
ValueOf(tok) == SubSeq(tok, IndexOf(tok, ":") + 1, Len(tok))

ExpectedDescriptor(segment) ==
    LET toks == Tokens(segment)
        later == {i \in 2..Len(toks) : Includes(toks[i], ":")}
        last(k) == CHOOSE i \in later : KeyOf(toks[i]) = k
                                        /\ \A j \in later : KeyOf(toks[j]) = k => j <= i
    IN  [eventName |-> IF toks = <<>> THEN <<>> ELSE toks[1],
         modifiers |-> [k \in {KeyOf(toks[i]) : i \in later} |-> ValueOf(toks[last(k)])]]

ParseExpected(a) ==
    IF a.t = "null" \/ Tokens(a.s) = <<>> THEN <<>>
    ELSE LET segs == Split(a.s, ",")
         IN  [i \in 1..Len(segs) |-> ExpectedDescriptor(segs[i])]

\* C7: for every trigger string, parseEventTriggers returns one descriptor per
\* comma-separated segment, in input order; the event name is the segment's first
\* whitespace-delimited token and the modifier map holds exactly the later tokens
\* of the form key:value, the last occurrence of a key winning; an empty,
\* whitespace-only or absent input yields the empty sequence.
C7_ParseMatchesGrammar ==
    (api.fn = "parseEventTriggers" /\ api.called)
        => api.ret = ParseExpected(api.args[1])

\* the colons of a token
Colons(tok) == Cardinality({i \in 1..Len(tok) : tok[i] = ":"})

\* every token of the string holds at most one colon
SingleColons(str) ==
    \A i \in 1..Len(Split(str, ",")) :
        \A j \in 1..Len(Tokens(Split(str, ",")[i])) :
            Colons(Tokens(Split(str, ",")[i])[j]) <= 1

\* the statement of C7 holds of the strings whose tokens hold at most one colon
C7_SingleColonTokens ==
    (api.fn = "parseEventTriggers" /\ api.called
       /\ (api.args[1].t = "string" => SingleColons(api.args[1].s)))
        => api.ret = ParseExpected(api.args[1])

-----------------------------------------------------------------------------
(* C2: validate() and the displayed content *)

\* what the function a verdict came from returns for the live inputs
LiveReturn(c, f) == ApplyFn(f, inputs[c], value).v

\* C2: after every call of validate() that returns, valid is true exactly when the
\* validation function returned a falsy value for the live inputs, reason is that
\* return value, and the displayed content is the reason of an invalid verdict and
\* empty after a valid one.
C2_VerdictAndDisplay ==
    (ret.op = "validate" /\ ~ret.threw)
        => /\ ret.reason = LiveReturn(ret.c, ret.fn)
           /\ ret.valid <=> ret.reason \in {Undefined, Null, Text(<<>>)}
           /\ ~ret.valid => innerHTML[ret.c] = ret.reason.s
           /\ ret.valid => innerHTML[ret.c] = <<>>

\* a valid verdict of a function cached by an earlier call, the content empty
C2_Witness ==
    /\ ret.op = "validate" /\ ~ret.threw /\ ret.valid /\ ~ret.loaded
    /\ ret.fn = Fn("match")
    /\ ret.reason = Text(<<>>)
    /\ innerHTML[ret.c] = <<>>

-----------------------------------------------------------------------------
(* C3: the priority of load() *)

\* the value at a dotted path of the global namespace, property by property
Reach(win, path) == OrNull(Descend(win, Split(path, ".")))

\* the first input of the resolved set is valid
FirstValid(c) == value[inputs[c][1].el] # <<>>

\* C3: a validate() that had no cached function uses (1) the function at the
\* function-reference path of the global namespace when one is configured, also
\* when a rule body is configured too; (2) otherwise the compiled rule function
\* when a rule body is configured; (3) otherwise native validation, whose reason is
\* the platform's message exactly when the first input of the set is invalid.
C3_LoadPriority ==
    (ret.op = "validate" /\ ret.loaded)
        => LET c == ret.c
           IN  /\ Truthy(attrs[c].function)
                    => /\ ~ret.threw => ret.fn = Reach(window, attrs[c].function.s)
                       /\ implementation[c] = Reach(window, attrs[c].function.s)
                       /\ ret.ev = "none"
               /\ (~Truthy(attrs[c].function) /\ Truthy(attrs[c].rule) /\ ~ret.threw)
                    => /\ ret.fn = Fn("rule")
                       /\ ret.fn = Reach(window, attrs[c].name.s)
                       /\ ret.ev # "none"
               /\ (~Truthy(attrs[c].function) /\ ~Truthy(attrs[c].rule))
                    => /\ implementation[c] = Fn("native")
                       /\ ~ret.threw
                            => /\ ret.fn = Fn("native")
                               /\ ~FirstValid(c) => ret.reason = Text(MsgFill)
                               /\ FirstValid(c) => ret.valid

\* a function reference wins over a rule body configured beside it
C3_Witness ==
    /\ ret.op = "validate" /\ ret.loaded /\ ~ret.threw
    /\ Truthy(attrs[ret.c].function) /\ Truthy(attrs[ret.c].rule)
    /\ ret.fn = Fn("match")

-----------------------------------------------------------------------------
(* C5: a rule that cannot be compiled or found *)

\* the rule name is reachable in the global namespace
RuleReachable(win, name) == name.t = "string" /\ Truthy(Reach(win, name.s))

\* the controller of the call resolved its function from a rule body and the
\* evaluator threw, or left the rule name unreachable
RuleFailed ==
    /\ ret'.op = "validate" /\ ret'.loaded
    /\ ~Truthy(attrs[ret'.c].function) /\ Truthy(attrs[ret'.c].rule)
    /\ \/ ret'.ev = "throws"
       \/ ret'.ev \in {"defines", "nothing"} /\ ~RuleReachable(window', attrs[ret'.c].name)

\* C5: when a controller with a rule body and no function reference resolves its
\* function and the evaluator throws or the rule name is not reachable afterwards,
\* validate() throws: no verdict is returned, no function is cached and the
\* displayed content is left as it was.
C5_RuleFailureIsRaised ==
    [][RuleFailed => /\ ret'.threw
                     /\ ~Truthy(implementation'[ret'.c])
                     /\ implementation' = implementation
                     /\ innerHTML' = innerHTML]_vars

\* the evaluator threw while a message of an earlier verdict was displayed
C5_Witness ==
    /\ ret.op = "validate" /\ ret.threw /\ ret.loaded /\ ret.ev = "throws"
    /\ innerHTML[ret.c] = MsgOther

-----------------------------------------------------------------------------
(* C6: the input reference set *)

\* the names of an attribute that has one
Configured(a) == Truthy(a) /\ Tokens(a.s) # <<>>

\* the names found in the form, each once, in the order of their first place
RECURSIVE FoundNames(_, _)
FoundNames(nms, seen) ==
    IF nms = <<>> THEN <<>>
    ELSE IF Head(nms) \in FormInputs \ seen
         THEN <<Head(nms)>> \o FoundNames(Tail(nms), seen \cup {Head(nms)})
         ELSE FoundNames(Tail(nms), seen)

\* after the attachment of controller c: it did not throw, and the set maps exactly
\* the names found in the form, each to the element itself
Resolved(c) ==
    /\ ~ret.threw /\ connected[c]
    /\ names[c] = Tokens(attrs[c].inputs.s)
    /\ inputs[c] = [i \in 1..Len(FoundNames(names[c], {})) |->
                       [name |-> FoundNames(names[c], {})[i],
                        el |-> FoundNames(names[c], {})[i]]]

\* C6: the attachment of a controller whose input names are configured does not
\* throw, whatever names have no matching input, and leaves the set mapping exactly
\* the names that were found, each to the element itself, so that the next
\* validate() reads the element's live value.
C6_AttachmentNeverRaises ==
    /\ (ret.op = "connect" /\ Configured(attrs[ret.c].inputs)) => Resolved(ret.c)
    /\ (ret.op = "validate" /\ ~ret.threw /\ ret.fn = Fn("native") /\ connected[ret.c])
          => (ret.valid <=> value[inputs[ret.c][1].el] # <<>>)

\* the statement of C6 holds of the controllers that have an enclosing form
C6_InputSet ==
    /\ (ret.op = "connect" /\ Configured(attrs[ret.c].inputs) /\ inForm[ret.c])
          => Resolved(ret.c)
    /\ (ret.op = "validate" /\ ~ret.threw /\ ret.fn = Fn("native") /\ connected[ret.c])
          => (ret.valid <=> value[inputs[ret.c][1].el] # <<>>)

-----------------------------------------------------------------------------
(* C10: the cached function *)

\* C10: once a controller holds a resolved function, a step changes it only
\* through the implementation setter, and every validate() uses it without running
\* load() again, whatever the attributes and the global namespace have become.
C10_CachedFunctionIsStable ==
    [][\A c \in Ctrls :
          Truthy(implementation[c])
            => /\ implementation'[c] # implementation[c]
                    => (ret'.op = "setImplementation" /\ ret'.c = c)
               /\ (ret'.op = "validate" /\ ret'.c = c)
                    => (~ret'.loaded /\ ret'.ev = "none"
                          /\ (~ret'.threw => ret'.fn = implementation[c]))]_vars

\* the cached function is used after the attribute was removed and the global
\* function replaced
C10_Witness ==
    /\ ret.op = "validate" /\ ~ret.threw /\ ~ret.loaded
    /\ ret.fn = Fn("match")
    /\ attrs[ret.c].function = Null
    /\ Reach(window, <<"V", ".", "m">>) = Fn("other")

-----------------------------------------------------------------------------
(* C1: validate(form) *)

\* the verdict of a controller for the live inputs is invalid
Invalid(c) == Truthy(ApplyFn(implementation[c], inputs[c], value).v)

\* the same, after the step
InvalidAfter(c) == Truthy(ApplyFn(implementation'[c], inputs'[c], value').v)

\* C1: validate(form) calls validate() on the form's controllers in document
\* order, returns the first one whose verdict is invalid and calls validate() on
\* no later one, whose content and function stay as they were; it returns
\* undefined exactly when every controller's verdict is valid.
C1_FirstFailing ==
    [][(ret'.op = "validateForm")
        => LET cs == QuerySelectorAll(doc)
               k == Len(ret'.called)
           IN  /\ k <= Len(cs) /\ ret'.called = SubSeq(cs, 1, k)
               /\ \A i \in (k + 1)..Len(cs) :
                      /\ innerHTML'[cs[i]] = innerHTML[cs[i]]
                      /\ implementation'[cs[i]] = implementation[cs[i]]
               /\ ~ret'.threw
                    => /\ \A i \in 1..(k - 1) : ~InvalidAfter(cs[i]) /\ innerHTML'[cs[i]] = <<>>
                       /\ ret'.failing # 0
                            => /\ k >= 1 /\ ret'.failing = cs[k]
                               /\ InvalidAfter(cs[k]) /\ innerHTML'[cs[k]] # <<>>
                       /\ ret'.failing = 0
                            <=> (k = Len(cs) /\ \A i \in 1..k : ~InvalidAfter(cs[i]))]_vars

\* the second controller is returned; the third, whose verdict would be valid,
\* still shows the message of an earlier validate()
C1_Witness ==
    /\ ret.op = "validateForm" /\ ~ret.threw
    /\ ret.failing = 2 /\ ret.called = <<1, 2>>
    /\ innerHTML[3] # <<>> /\ Truthy(implementation[3]) /\ ~Invalid(3)

-----------------------------------------------------------------------------
(* C4: the debounced listener *)

Pending(l) == {t \in timers : t.l = l}

DelayOf(l) == IF listeners[l].delay.nan THEN 0 ELSE listeners[l].delay.n

\* C4: for a listener of a trigger with a delay d, every firing cancels the
\* listener's pending timer and sets one due d later: the firing itself never
\* calls back, after a firing there is either the one pending timer, due d after
\* the last firing, or the one call its timer made, and no firing of another
\* listener cancels the timer.
C4_Debounce ==
    \A l \in 1..Len(listeners) :
        listeners[l].delayed
          => /\ lastFire[l] < 0 => (Pending(l) = {} /\ sinceFire[l] = 0)
             /\ lastFire[l] >= 0
                  => /\ Cardinality(Pending(l)) + sinceFire[l] = 1
                     /\ \A t \in Pending(l) : /\ t.id = timeoutId[l]
                                              /\ t.due = lastFire[l] + DelayOf(l)
                                              /\ t.due >= now
                     /\ sinceFire[l] = 1 => now >= lastFire[l] + DelayOf(l)

\* the only listener fired more than once, last at 1 or later, and its timer has
\* called back once
C4_Witness ==
    /\ Len(listeners) = 1 /\ listeners[1].delayed /\ DelayOf(1) = 2
    /\ lastFire[1] >= 1 /\ timeoutId[1] >= 2
    /\ sinceFire[1] = 1 /\ Pending(1) = {}

====
